---------------------------- MODULE Spec2Model ----------------------------
(***************************************************************************)
(* A model of httpobs/scanner/analyzer/headers.py: the header evaluators   *)
(* of the HTTP Observatory scanner.                                        *)
(*                                                                         *)
(* Header values are TLA+ strings and are processed character by character *)
(* as the Python code does (strip, split, lower, startswith, int, ...).    *)
(* Python's None is the record None, an optional value v is Some(v), a     *)
(* dict is a function over its keys, and a set converted to a list (whose  *)
(* order Python leaves open) stays a set.                                  *)
(***************************************************************************)
EXTENDS Integers, Sequences, FiniteSets, TLC

None == [none |-> TRUE]
Some(v) == [some |-> v]

Min(S) == CHOOSE x \in S : \A y \in S : x <= y

(***************************************************************************)
(* Python string operations.  The operators that walk a whole string do so *)
(* by halving or by a set of positions, so that a header of tens of        *)
(* thousands of characters can be processed.                               *)
(***************************************************************************)
Char(s, i) == SubSeq(s, i, i)

From(s, i) == SubSeq(s, i, Len(s))

\* s[0:n]
Take(s, n) == SubSeq(s, 1, IF Len(s) < n THEN Len(s) ELSE n)

\* s[a:b] with 0 <= a <= b (Python's zero-based, end-exclusive slice)
Slice(s, a, b) == SubSeq(s, a + 1, IF Len(s) < b THEN Len(s) ELSE b)

\* the characters str.strip() and str.split() treat as whitespace (ASCII)
Whitespace == {" ", "\t", "\n", "\r", "\f"}

Positions(s, chars) == {i \in 1..Len(s) : Char(s, i) \in chars}

RECURSIVE Remove(_, _)
\* s.replace(c, '') for a single character c
Remove(s, c) ==
    IF Positions(s, {c}) = {} THEN s
    ELSE IF Len(s) = 1 THEN ""
    ELSE LET h == Len(s) \div 2
         IN  Remove(SubSeq(s, 1, h), c) \o Remove(From(s, h + 1), c)

RECURSIVE LStrip(_)
\* s.lstrip(), by halves
LStrip(s) ==
    IF Len(s) = 0 THEN s
    ELSE IF Char(s, 1) \notin Whitespace THEN s
    ELSE IF Len(s) = 1 THEN ""
    ELSE LET h    == Len(s) \div 2
             left == LStrip(SubSeq(s, 1, h))
         IN  IF left = "" THEN LStrip(From(s, h + 1)) ELSE left \o From(s, h + 1)

RECURSIVE RStrip(_)
\* s.rstrip(), by halves
RStrip(s) ==
    IF Len(s) = 0 THEN s
    ELSE IF Char(s, Len(s)) \notin Whitespace THEN s
    ELSE IF Len(s) = 1 THEN ""
    ELSE LET h     == Len(s) \div 2
             right == RStrip(From(s, h + 1))
         IN  IF right = "" THEN RStrip(SubSeq(s, 1, h)) ELSE SubSeq(s, 1, h) \o right

\* s.strip()
Strip(s) == RStrip(LStrip(s))

\* s.isspace(): false for the empty string
IsSpace(s) == Len(s) > 0 /\ \A i \in 1..Len(s) : Char(s, i) \in Whitespace

UpperCase == "ABCDEFGHIJKLMNOPQRSTUVWXYZ"
LowerCase == "abcdefghijklmnopqrstuvwxyz"

UpperChars == {Char(UpperCase, i) : i \in 1..Len(UpperCase)}

LowerChar(c) ==
    LET at == Positions(UpperCase, {c})
    IN  IF at = {} THEN c ELSE Char(LowerCase, Min(at))

RECURSIVE Lower(_)
\* s.lower()
Lower(s) ==
    IF Positions(s, UpperChars) = {} THEN s
    ELSE IF Len(s) = 1 THEN LowerChar(s)
    ELSE LET h == Len(s) \div 2
         IN  Lower(SubSeq(s, 1, h)) \o Lower(From(s, h + 1))

\* s.startswith(p)
StartsWith(s, p) == Len(s) >= Len(p) /\ SubSeq(s, 1, Len(p)) = p

\* sub in s
Contains(s, sub) ==
    \E i \in 1..(Len(s) - Len(sub) + 1) : SubSeq(s, i, i + Len(sub) - 1) = sub

RECURSIVE SplitOn(_, _)
\* s.split(c) for a single character c: empty pieces are kept
SplitOn(s, c) ==
    LET at == Positions(s, {c})
    IN  IF at = {} THEN <<s>>
        ELSE <<SubSeq(s, 1, Min(at) - 1)>> \o SplitOn(From(s, Min(at) + 1), c)

RECURSIVE SplitWords(_)
\* s.split(): the maximal runs of non-whitespace characters
SplitWords(s) ==
    LET t  == LStrip(s)
        at == Positions(t, Whitespace)
    IN  IF t = "" THEN <<>>
        ELSE IF at = {} THEN <<t>>
        ELSE <<SubSeq(t, 1, Min(at) - 1)>> \o SplitWords(From(t, Min(at) + 1))

\* s.split(maxsplit=1): the first word, and the rest with its leading
\* whitespace dropped (when there is a rest)
SplitFirstWord(s) ==
    LET t    == LStrip(s)
        at   == Positions(t, Whitespace)
        rest == LStrip(From(t, Min(at) + 1))
    IN  IF t = "" THEN <<>>
        ELSE IF at = {} THEN <<t>>
        ELSE IF rest = "" THEN <<SubSeq(t, 1, Min(at) - 1)>>
        ELSE <<SubSeq(t, 1, Min(at) - 1), rest>>

Range(seq) == {seq[i] : i \in 1..Len(seq)}


(***************************************************************************)
(* Python values: exceptions, dicts, repr().                               *)
(***************************************************************************)
Raised(kind) == [raised |-> kind]
Returned(v) == [returned |-> v]
HasRaised(r) == "raised" \in DOMAIN r

EmptyDict == [k \in {} |-> {}]

\* d[k] = v
Put(d, k, v) == [x \in DOMAIN d \cup {k} |-> IF x = k THEN v ELSE d[x]]

\* len(repr(s)) of a str of printable ASCII: the quotes, one backslash
\* before each backslash, and one before each ' when the string holds
\* both ' and " (repr then quotes it with ')
ReprLenStr(s) ==
    Len(s) + 2 + Cardinality(Positions(s, {"\\"}))
    + (IF Positions(s, {"\""}) # {} THEN Cardinality(Positions(s, {"'"})) ELSE 0)

RECURSIVE SumOver(_, _)
SumOver(S, n) ==
    IF S = {} THEN 0
    ELSE LET x == CHOOSE y \in S : TRUE IN n[x] + SumOver(S \ {x}, n)

\* len(str(l)) of a list of str: "[" and "]", the items, ", " between them
ReprLenList(items) ==
    2 + SumOver(items, [t \in items |-> ReprLenStr(t)])
    + (IF items = {} THEN 0 ELSE 2 * (Cardinality(items) - 1))

\* len(str(d)) of a dict from str to list of str: "{" and "}", "k: v" for
\* each item, ", " between the items
ReprLenDict(d) ==
    2 + SumOver(DOMAIN d, [k \in DOMAIN d |-> ReprLenStr(k) + 2 + ReprLenList(d[k])])
    + (IF DOMAIN d = {} THEN 0 ELSE 2 * (Cardinality(DOMAIN d) - 1))

(***************************************************************************)
(* __parse_csp                                                             *)
(***************************************************************************)
\* the shortest policy string __parse_csp accepts
MIN_CSP_LENGTH == 6

RECURSIVE parse_csp_entries(_, _)
\* the loop over the split directives: entry[0] of an empty entry raises
\* IndexError, a repeated directive raises ValueError
parse_csp_entries(entries, csp) ==
    IF entries = <<>> THEN Returned(csp)
    ELSE LET entry == Head(entries)
         IN  IF entry = <<>> THEN Raised("IndexError")
             ELSE LET directive == entry[1]
                      values == IF Len(entry) > 1
                                THEN {Lower(w) : w \in Range(SplitWords(entry[Len(entry)]))}
                                ELSE {"'none'"}
                  IN  IF directive \in DOMAIN csp THEN Raised("ValueError")
                      ELSE parse_csp_entries(Tail(entries), Put(csp, directive, values))

__parse_csp(raw) ==
    LET csp_string == Strip(Remove(Remove(raw, "\r"), "\n"))
        directives == SelectSeq(SplitOn(csp_string, ";"), LAMBDA d : d # "")
        entries == [i \in 1..Len(directives) |-> SplitFirstWord(Strip(directives[i]))]
    IN  IF Len(csp_string) < MIN_CSP_LENGTH \/ IsSpace(csp_string)
        THEN Raised("ValueError")
        ELSE parse_csp_entries(entries, EmptyDict)

(***************************************************************************)
(* The scan: reqs['responses'], reqs['session'] and the preload lists.     *)
(***************************************************************************)
VARIABLES
    auto,            \* reqs['responses']['auto']: url, headers, http_equiv
    https,           \* reqs['responses']['https']: None, or url, verified, headers
    hsts_preloaded,  \* what is_hsts_preloaded answers for the https host
    hpkp_preloaded,  \* what is_hpkp_preloaded answers for the https host
    session_cookies, \* reqs['session'].cookies, in the jar's order
    ret              \* the last call: None, or the evaluator and its output

vars == <<auto, https, hsts_preloaded, hpkp_preloaded, session_cookies, ret>>

RECURSIVE Repeat(_, _)
\* s * n
Repeat(s, n) ==
    IF n = 0 THEN ""
    ELSE IF n = 1 THEN s
    ELSE Repeat(s, n \div 2) \o Repeat(s, n - (n \div 2))

\* A response's headers.  A state keeps a long Content-Security-Policy
\* header as its text and csp_padding, the number of characters "a" that
\* follow the text in the header.
HeadersOf(response) ==
    [h \in DOMAIN response.headers |->
        IF h = "Content-Security-Policy"
        THEN response.headers[h] \o Repeat("a", response.csp_padding)
        ELSE response.headers[h]]

\* urlparse(url).scheme
UrlScheme(url) ==
    LET at == Positions(url, {":"})
    IN  IF at = {} THEN "" ELSE Lower(SubSeq(url, 1, Min(at) - 1))

(***************************************************************************)
(* content_security_policy                                                 *)
(***************************************************************************)
dangerously_broad == {"http:", "https:", "*", "http://*", "http://*.*", "https://*", "https://*.*"}
unsafe_inline == {"'unsafe-inline'", "data:"}
HashOrNonce == {"'sha256-", "'sha384-", "'sha512-", "'nonce-"}

\* len(str(data)) must stay below this for data to be returned
MAX_DATA_LENGTH == 32768

\* csp_headers, but a tag that fails parsing counts as absent when the
\* header is present
csp_headers_ignoring_bad_equiv(headers, http_equiv) ==
    LET http == IF "Content-Security-Policy" \in DOMAIN headers
                THEN __parse_csp(headers["Content-Security-Policy"])
                ELSE Returned(None)
        equiv == IF "Content-Security-Policy" \in DOMAIN http_equiv
                 THEN __parse_csp(http_equiv["Content-Security-Policy"])
                 ELSE Returned(None)
    IN  IF HasRaised(http) THEN http
        ELSE IF HasRaised(equiv) /\ http.returned = None THEN equiv
        ELSE Returned([http |-> IF http.returned = None THEN None ELSE Some(http.returned),
                       equiv |-> IF HasRaised(equiv) \/ equiv.returned = None
                                 THEN None ELSE Some(equiv.returned)])

\* headers['http'] and headers['equiv']: the parsed policy of each source
\* that is present, None for one that is absent; an exception of either
\* parse ends the try block
csp_headers(headers, http_equiv) ==
    LET http == IF "Content-Security-Policy" \in DOMAIN headers
                THEN __parse_csp(headers["Content-Security-Policy"])
                ELSE Returned(None)
        equiv == IF "Content-Security-Policy" \in DOMAIN http_equiv
                 THEN __parse_csp(http_equiv["Content-Security-Policy"])
                 ELSE Returned(None)
    IN  IF HasRaised(http) THEN http
        ELSE IF HasRaised(equiv) THEN equiv
        ELSE Returned([http |-> IF http.returned = None THEN None ELSE Some(http.returned),
                       equiv |-> IF equiv.returned = None THEN None ELSE Some(equiv.returned)])

\* the truth value of headers['http'] / headers['equiv']: a non-empty dict
HasPolicy(h) == h # None /\ DOMAIN h.some # {}

\* the union of the two policies, directive by directive
csp_union(http, equiv) ==
    [k \in DOMAIN http \cup DOMAIN equiv |->
        (IF k \in DOMAIN http THEN http[k] ELSE {})
        \cup (IF k \in DOMAIN equiv THEN equiv[k] ELSE {})]

csp_merge(h) ==
    IF HasPolicy(h.http) /\ HasPolicy(h.equiv)
    THEN csp_union(h.http.some, h.equiv.some)
    ELSE IF HasPolicy(h.http) THEN h.http.some ELSE h.equiv.some

\* csp.get(name) or csp.get('default-src') or {'*'}: the set object the
\* name is bound to, given as the key of csp that holds it, or "" for the
\* new set {'*'}
csp_source_key(csp, name) ==
    IF name \in DOMAIN csp /\ csp[name] # {} THEN name
    ELSE IF "default-src" \in DOMAIN csp /\ csp["default-src"] # {} THEN "default-src"
    ELSE ""

csp_source_set(csp, key) == IF key = "" THEN {"*"} ELSE csp[key]

\* script_src.remove('unsafe-inline') when script_src holds a hash or a
\* nonce: the set is removed from in place, so the policy, and every other
\* name bound to the same set, loses the keyword with it
csp_remove_unsafe_inline(csp) ==
    LET key == csp_source_key(csp, "script-src")
        script_src == csp_source_set(csp, key)
    IN  IF (\E source \in script_src : \E p \in HashOrNonce : StartsWith(source, p))
           /\ "'unsafe-inline'" \in script_src
           /\ key # ""
        THEN [csp EXCEPT ![key] = @ \ {"'unsafe-inline'"}]
        ELSE csp

\* the chain of tests on the policy as the removal has left it
csp_result(csp, url) ==
    LET object_src == csp_source_set(csp, csp_source_key(csp, "object-src"))
        script_src == csp_source_set(csp, csp_source_key(csp, "script-src"))
        style_src  == csp_source_set(csp, csp_source_key(csp, "style-src"))
    IN  IF script_src \cap (dangerously_broad \cup unsafe_inline) # {}
           \/ object_src \cap dangerously_broad # {}
        THEN "csp-implemented-with-unsafe-inline"
        ELSE IF UrlScheme(url) = "https"
                /\ \E k \in DOMAIN csp : \E d \in csp[k] : Contains(d, "http:")
        THEN "csp-implemented-with-insecure-scheme"
        ELSE IF (script_src \cup style_src) \cap {"'unsafe-eval'"} # {}
        THEN "csp-implemented-with-unsafe-eval"
        ELSE IF style_src \cap (dangerously_broad \cup unsafe_inline) # {}
        THEN "csp-implemented-with-unsafe-inline-in-style-src-only"
        ELSE IF "default-src" \in DOMAIN csp /\ csp["default-src"] = {"'none'"}
        THEN "csp-implemented-with-no-unsafe-default-src-none"
        ELSE "csp-implemented-with-no-unsafe"

csp_pass(result, expectation) ==
    result \in {expectation,
                "csp-implemented-with-no-unsafe-default-src-none",
                "csp-implemented-with-unsafe-inline-in-style-src-only"}

\* the output of a policy that was found: its result, its data and its pass
csp_policy(output, csp, url) ==
    LET result == csp_result(csp, url)
    IN  [output EXCEPT
            !.result = result,
            !.data = Some(IF ReprLenDict(csp) < MAX_DATA_LENGTH THEN csp ELSE EmptyDict),
            !.pass = csp_pass(result, output.expectation)]

\* the output for the headers that were read
csp_output(output, headers, present, url) ==
    IF HasRaised(headers)
    THEN [output EXCEPT !.result = "csp-header-invalid"]
    ELSE IF present /\ ~HasPolicy(headers.returned.http) /\ ~HasPolicy(headers.returned.equiv)
    THEN [output EXCEPT !.result = "csp-header-invalid"]
    ELSE IF ~HasPolicy(headers.returned.http) /\ ~HasPolicy(headers.returned.equiv)
    THEN [output EXCEPT !.result = "csp-not-implemented"]
    ELSE csp_policy(output, csp_remove_unsafe_inline(csp_merge(headers.returned)), url)

content_security_policy(response, expectation) ==
    LET output  == [data |-> None, expectation |-> expectation, pass |-> FALSE, result |-> "None"]
        present == "Content-Security-Policy" \in DOMAIN response.headers
                   \/ "Content-Security-Policy" \in DOMAIN response.http_equiv
    IN  csp_output(output, csp_headers(HeadersOf(response), response.http_equiv),
                   present, response.url)

(***************************************************************************)
(* int()                                                                   *)
(***************************************************************************)
Digits == "0123456789"
DigitChars == {Char(Digits, i) : i \in 1..Len(Digits)}

RECURSIVE DigitsValue(_)
DigitsValue(s) ==
    IF s = "" THEN 0
    ELSE 10 * DigitsValue(SubSeq(s, 1, Len(s) - 1))
         + (Min(Positions(Digits, {Char(s, Len(s))})) - 1)

\* int(s): outer whitespace, an optional sign and decimal digits; anything
\* else raises ValueError
ParseInt(s) ==
    LET t == Strip(s)
        signed == Len(t) > 0 /\ Char(t, 1) \in {"+", "-"}
        digits == IF signed THEN From(t, 2) ELSE t
    IN  IF digits = "" \/ Positions(digits, DigitChars) # 1..Len(digits)
        THEN Raised("ValueError")
        ELSE Returned(IF signed /\ Char(t, 1) = "-"
                      THEN 0 - DigitsValue(digits) ELSE DigitsValue(digits))

\* [i.lower().strip() for i in data.split(';')]
Parameters(data) ==
    LET parts == SplitOn(data, ";")
    IN  [i \in 1..Len(parts) |-> Strip(Lower(parts[i]))]

(***************************************************************************)
(* strict_transport_security                                               *)
(***************************************************************************)
SIX_MONTHS == 15552000
MAX_HSTS_LENGTH == 1024
MAX_AGE_END == 128

RECURSIVE hsts_parameters(_, _)
\* the loop over the parameters, on the output as it stands; int() raising
\* leaves the loop with the output as it then is
hsts_parameters(sts, output) ==
    IF sts = <<>> THEN Returned(output)
    ELSE LET parameter == Head(sts)
             age == ParseInt(Slice(parameter, 8, MAX_AGE_END))
         IN  IF StartsWith(parameter, "max-age=")
             THEN IF HasRaised(age) THEN [raised |-> "ValueError", output |-> output]
                  ELSE hsts_parameters(Tail(sts), [output EXCEPT !.max_age = Some(age.returned)])
             ELSE IF parameter = "includesubdomains"
             THEN hsts_parameters(Tail(sts), [output EXCEPT !.includeSubDomains = TRUE])
             ELSE IF parameter = "preload"
             THEN hsts_parameters(Tail(sts), [output EXCEPT !.preload = TRUE])
             ELSE hsts_parameters(Tail(sts), output)

\* the truth value of output['max-age']: set, and not 0
MaxAgeIsTrue(output) == output.max_age # None /\ output.max_age.some # 0

\* the branch of a verified response that has the header
hsts_header(output, header) ==
    LET with_data == [output EXCEPT !.data = Some(Take(header, MAX_HSTS_LENGTH))]
        data == with_data.data.some
        parsed == hsts_parameters(Parameters(data), with_data)
    IN  IF Contains(data, ",")
        THEN [with_data EXCEPT !.result = "hsts-header-invalid"]
        ELSE IF HasRaised(parsed)
        THEN [parsed.output EXCEPT !.result = "hsts-header-invalid"]
        ELSE IF ~MaxAgeIsTrue(parsed.returned)
        THEN [parsed.returned EXCEPT !.result = "hsts-header-invalid"]
        ELSE IF parsed.returned.max_age.some < SIX_MONTHS
        THEN [parsed.returned EXCEPT !.result = "hsts-implemented-max-age-less-than-six-months"]
        ELSE [parsed.returned EXCEPT !.result = "hsts-implemented-max-age-at-least-six-months"]

\* hsts_preload, but only for a response that went through the checks
\* of the header (a verified certificate chain)
hsts_preload_if_verified(output, response, preloaded) ==
    IF response # None /\ response.verified /\ preloaded # None
    THEN [output EXCEPT !.result = "hsts-preloaded",
                        !.includeSubDomains = preloaded.includeSubDomains,
                        !.preloaded = TRUE]
    ELSE output

\* the preload list overrides the result whenever there is an https response
hsts_preload(output, response, preloaded) ==
    IF response # None /\ preloaded # None
    THEN [output EXCEPT !.result = "hsts-preloaded",
                        !.includeSubDomains = preloaded.includeSubDomains,
                        !.preloaded = TRUE]
    ELSE output

hsts_pass(result, expectation) ==
    result \in {"hsts-implemented-max-age-at-least-six-months", "hsts-preloaded", expectation}

strict_transport_security(response, preloaded, expectation) ==
    LET output == [data |-> None, expectation |-> expectation, includeSubDomains |-> FALSE,
                   max_age |-> None, pass |-> FALSE, preload |-> FALSE,
                   preloaded |-> FALSE, result |-> "hsts-not-implemented"]
        checked ==
            IF response = None
            THEN [output EXCEPT !.result = "hsts-not-implemented-no-https"]
            ELSE IF ~response.verified
            THEN [output EXCEPT !.result = "hsts-invalid-cert"]
            ELSE IF "Strict-Transport-Security" \in DOMAIN response.headers
            THEN hsts_header(output, response.headers["Strict-Transport-Security"])
            ELSE output
        listed == hsts_preload(checked, response, preloaded)
    IN  [listed EXCEPT !.pass = hsts_pass(listed.result, expectation)]

(***************************************************************************)
(* public_key_pinning                                                      *)
(***************************************************************************)
FIFTEEN_DAYS == 1296000
MAX_HPKP_LENGTH == 2048

RECURSIVE hpkp_parameters(_, _, _)
\* the loop over the parameters: the output and the list of pins
hpkp_parameters(pkp, output, pins) ==
    IF pkp = <<>> THEN Returned([output |-> output, pins |-> pins])
    ELSE LET parameter == Head(pkp)
             age == ParseInt(Slice(parameter, 8, MAX_AGE_END))
         IN  IF StartsWith(parameter, "max-age=")
             THEN IF HasRaised(age) THEN [raised |-> "ValueError", output |-> output]
                  ELSE hpkp_parameters(Tail(pkp), [output EXCEPT !.max_age = Some(age.returned)], pins)
             ELSE IF StartsWith(parameter, "pin-sha256=") /\ parameter \notin Range(pins)
             THEN hpkp_parameters(Tail(pkp), output, Append(pins, parameter))
             ELSE IF parameter = "includesubdomains"
             THEN hpkp_parameters(Tail(pkp), [output EXCEPT !.includeSubDomains = TRUE], pins)
             ELSE hpkp_parameters(Tail(pkp), output, pins)

\* the result a max-age that is true gives
hpkp_max_age_result(output) ==
    IF ~MaxAgeIsTrue(output) THEN output
    ELSE IF output.max_age.some < FIFTEEN_DAYS
    THEN [output EXCEPT !.result = "hpkp-implemented-max-age-less-than-fifteen-days"]
    ELSE [output EXCEPT !.result = "hpkp-implemented-max-age-at-least-fifteen-days"]

\* the branch of a verified response that has the header
hpkp_header(output, header) ==
    LET with_data == [output EXCEPT !.data = Some(Take(header, MAX_HPKP_LENGTH))]
        parsed == hpkp_parameters(Parameters(with_data.data.some), with_data, <<>>)
        counted == [parsed.returned.output EXCEPT !.numPins = Some(Len(parsed.returned.pins))]
    IN  IF HasRaised(parsed)
        THEN [parsed.output EXCEPT !.result = "hpkp-header-invalid", !.pass = FALSE]
        ELSE IF ~MaxAgeIsTrue(counted) \/ Len(parsed.returned.pins) < 2
        THEN [hpkp_max_age_result(counted) EXCEPT !.result = "hpkp-header-invalid", !.pass = FALSE]
        ELSE hpkp_max_age_result(counted)

\* the preload list overrides the result whenever there is an https response
hpkp_preload(output, response, preloaded) ==
    IF response # None /\ preloaded # None
    THEN [output EXCEPT !.result = "hpkp-preloaded",
                        !.includeSubDomains = preloaded.includeSubDomainsForPinning,
                        !.preloaded = TRUE]
    ELSE output

public_key_pinning(response, preloaded, expectation) ==
    LET output == [data |-> None, expectation |-> expectation, includeSubDomains |-> FALSE,
                   max_age |-> None, numPins |-> None, pass |-> TRUE,
                   preloaded |-> FALSE, result |-> "hpkp-not-implemented"]
        checked ==
            IF response = None
            THEN [output EXCEPT !.result = "hpkp-not-implemented-no-https"]
            ELSE IF ~response.verified
            THEN [output EXCEPT !.result = "hpkp-invalid-cert"]
            ELSE IF "Public-Key-Pins" \in DOMAIN response.headers
            THEN hpkp_header(output, response.headers["Public-Key-Pins"])
            ELSE output
    IN  hpkp_preload(checked, response, preloaded)

(***************************************************************************)
(* The calls.  Each evaluator is called with the scan and an expectation   *)
(* and returns its output.                                                 *)
(***************************************************************************)
Call(fn, output) == [fn |-> fn, output |-> output]

Called(fn) == ret # None /\ ret.fn = fn

CSPExpectations ==
    {"csp-implemented-with-no-unsafe", "csp-implemented-with-unsafe-inline",
     "csp-not-implemented", "csp-header-invalid"}

CallContentSecurityPolicy ==
    \E expectation \in CSPExpectations :
        /\ ret' = Call("content_security_policy", content_security_policy(auto, expectation))
        /\ UNCHANGED <<auto, https, hsts_preloaded, hpkp_preloaded, session_cookies>>

HSTSExpectations ==
    {"hsts-implemented-max-age-at-least-six-months",
     "hsts-implemented-max-age-less-than-six-months", "hsts-header-invalid"}

CallStrictTransportSecurity ==
    \E expectation \in HSTSExpectations :
        /\ ret' = Call("strict_transport_security",
                       strict_transport_security(https, hsts_preloaded, expectation))
        /\ UNCHANGED <<auto, https, hsts_preloaded, hpkp_preloaded, session_cookies>>

HPKPExpectations == {"hpkp-not-implemented", "hpkp-header-invalid"}

CallPublicKeyPinning ==
    \E expectation \in HPKPExpectations :
        /\ ret' = Call("public_key_pinning",
                       public_key_pinning(https, hpkp_preloaded, expectation))
        /\ UNCHANGED <<auto, https, hsts_preloaded, hpkp_preloaded, session_cookies>>

(***************************************************************************)
(* The scans of the Content-Security-Policy checks: a policy in the header *)
(* made of a default-src, a script-src, a style-src and an object-src      *)
(* directive (each present or not), or a malformed header, with or without *)
(* a policy in the http-equiv tag, on an http or an https page.            *)
(***************************************************************************)
DefaultSrcTexts ==
    {"", "default-src 'none'; ", "default-src 'self'; ", "default-src *; ",
     "default-src 'nonce-abc' 'unsafe-inline'; ",
     "default-src 'none' http://cdn.example.com; "}

ScriptSrcTexts ==
    {"", "script-src; ", "script-src 'self'; ", "script-src 'Unsafe-Inline'; ",
     "script-src 'sha256-abc=' 'unsafe-inline'; ", "script-src 'unsafe-eval'; "}

StyleSrcTexts ==
    {"", "style-src 'self'; ", "style-src 'unsafe-inline'; ", "style-src 'unsafe-eval'; ",
     "style-src http://cdn.example.com; "}

ObjectSrcTexts == {"", "object-src 'none'; ", "object-src http:; "}

MalformedPolicies ==
    {"img", "  \r\n  ", ";;;;;;;", "default-src 'self'; ;",
     "script-src 'self'; script-src 'none'", "default-src\t'none'\r\n"}

CSPHeaderTexts ==
    {d \o s \o y \o o : d \in DefaultSrcTexts, s \in ScriptSrcTexts,
                        y \in StyleSrcTexts, o \in ObjectSrcTexts}
    \cup MalformedPolicies

CSPEquivTexts ==
    {"script-src data:", "frame-ancestors 'none'; default-src 'self'", "x-src"}

Urls == {"http://example.com/", "https://example.com/"}

Header(name, texts) == {EmptyDict} \cup {[h \in {name} |-> t] : t \in texts}

InitCSP ==
    /\ \E url \in Urls :
       \E headers \in Header("Content-Security-Policy", CSPHeaderTexts) :
       \E http_equiv \in Header("Content-Security-Policy", CSPEquivTexts) :
           auto = [url |-> url, headers |-> headers, http_equiv |-> http_equiv,
                   csp_padding |-> 0]
    /\ https = None
    /\ hsts_preloaded = None
    /\ hpkp_preloaded = None
    /\ session_cookies = <<>>
    /\ ret = None

\* one evaluation of each scan
NextCSP == ret = None /\ CallContentSecurityPolicy

SpecCSP == InitCSP /\ [][NextCSP]_vars

(***************************************************************************)
(* Content-Security-Policy: what the two sources of a scan hold.           *)
(***************************************************************************)
CSP_NAME == "Content-Security-Policy"

\* the policy string with its line breaks and outer whitespace removed
TrimmedPolicy(raw) == Strip(Remove(Remove(raw, "\r"), "\n"))

\* the directive names of a policy string, one for each non-empty segment
\* between semicolons, in order
DirectiveNames(raw) ==
    LET segments == SelectSeq(SplitOn(TrimmedPolicy(raw), ";"),
                              LAMBDA d : SplitWords(d) # <<>>)
    IN  [i \in 1..Len(segments) |-> SplitWords(segments[i])[1]]

\* a policy string fails parsing: fewer than 6 characters once trimmed,
\* nothing but whitespace, or a directive name twice
FailsParsing(raw) ==
    LET names == DirectiveNames(raw)
    IN  \/ Len(TrimmedPolicy(raw)) < MIN_CSP_LENGTH
        \/ IsSpace(raw)
        \/ \E i, j \in 1..Len(names) : i # j /\ names[i] = names[j]

HeaderPresent == CSP_NAME \in DOMAIN auto.headers
EquivPresent == CSP_NAME \in DOMAIN auto.http_equiv
HeaderText == HeadersOf(auto)[CSP_NAME]
EquivText == auto.http_equiv[CSP_NAME]

\* both sources parse (an absent source parses to no policy) and the
\* policy they give together has a directive
PolicyParsed ==
    /\ ~HasRaised(csp_headers(HeadersOf(auto), auto.http_equiv))
    /\ \/ HasPolicy(csp_headers(HeadersOf(auto), auto.http_equiv).returned.http)
       \/ HasPolicy(csp_headers(HeadersOf(auto), auto.http_equiv).returned.equiv)

\* the merged policy of the scan, before any classification
MergedPolicy == csp_merge(csp_headers(HeadersOf(auto), auto.http_equiv).returned)

\* the effective directive: its own sources, else those of default-src,
\* else {*}
EffectiveSrc(csp, name) ==
    IF name \in DOMAIN csp THEN csp[name]
    ELSE IF "default-src" \in DOMAIN csp THEN csp["default-src"]
    ELSE {"*"}

\* the working script-src: the effective script-src, without
\* 'unsafe-inline' when it holds a hash or a nonce source
WorkingScriptSrc(csp) ==
    LET script_src == EffectiveSrc(csp, "script-src")
    IN  IF \E source \in script_src : \E p \in HashOrNonce : StartsWith(source, p)
        THEN script_src \ {"'unsafe-inline'"}
        ELSE script_src

\* the first rule of the chain that matches
FirstMatchingRule(csp, url) ==
    LET script_src == WorkingScriptSrc(csp)
        object_src == EffectiveSrc(csp, "object-src")
        style_src  == EffectiveSrc(csp, "style-src")
    IN  CASE script_src \cap (dangerously_broad \cup unsafe_inline) # {}
             \/ object_src \cap dangerously_broad # {}
               -> "csp-implemented-with-unsafe-inline"
          [] UrlScheme(url) = "https"
             /\ \E k \in DOMAIN csp : \E d \in csp[k] : Contains(d, "http:")
               -> "csp-implemented-with-insecure-scheme"
          [] "'unsafe-eval'" \in script_src \cup style_src
               -> "csp-implemented-with-unsafe-eval"
          [] style_src \cap (dangerously_broad \cup unsafe_inline) # {}
               -> "csp-implemented-with-unsafe-inline-in-style-src-only"
          [] "default-src" \in DOMAIN csp /\ csp["default-src"] = {"'none'"}
               -> "csp-implemented-with-no-unsafe-default-src-none"
          [] OTHER -> "csp-implemented-with-no-unsafe"

\* C1: for every policy that parses and is non-empty,
\* content_security_policy returns the result of the first rule of the
\* chain that matches on the effective script-src, object-src and style-src
\* (rules 1 to 6 in the order of section 4.3); a later rule's result is
\* never returned when an earlier rule matches.
C1_FirstMatchingRuleWins ==
    (Called("content_security_policy") /\ PolicyParsed)
        => ret.output.result = FirstMatchingRule(MergedPolicy, auto.url)

\* C2: content_security_policy returns pass = true if and only if its
\* result equals the expectation or is one of the two results that always
\* pass, csp-not-implemented and csp-header-invalid included.
C2_PassIffExpectedOrAcceptable ==
    Called("content_security_policy")
        => (ret.output.pass <=>
              \/ ret.output.result = ret.output.expectation
              \/ ret.output.result = "csp-implemented-with-no-unsafe-default-src-none"
              \/ ret.output.result = "csp-implemented-with-unsafe-inline-in-style-src-only")

HSTSHeaderTexts ==
    {"max-age=31536000; includeSubDomains", "max-age=100", "max-age=0",
     "max-age=15552000", "max-age=15551999", "includeSubDomains; preload",
     "MAX-AGE=63072000 ; IncludeSubDomains;Preload", "max-age=six months",
     "max-age=31536000; includeSubDomains, max-age=31536000; includeSubDomains",
     "max-age=\"31536000\"", "includeSubDomains; max-age=", "max-age= +15552000 ;"}

PinA == "pin-sha256=\"E9CZ9INDbd+2eRQozYqqbQ2yXLVKB9+xcprMF+44U1g=\""
PinB == "pin-sha256=\"LPJNul+wow4m6DsqxbninhsWHlwfp0JecwQzYpOLmCQ=\""
\* PinA with the case of one letter changed: another base64 value
PinC == "pin-sha256=\"e9CZ9INDbd+2eRQozYqqbQ2yXLVKB9+xcprMF+44U1g=\""

HPKPHeaderTexts ==
    {"max-age=1296000; " \o PinA \o "; " \o PinB,
     "max-age=1295999; " \o PinA \o "; " \o PinB \o "; includeSubDomains",
     "max-age=0; " \o PinA \o "; " \o PinB,
     "max-age=5184000; " \o PinA,
     "max-age=5184000; " \o PinA \o "; " \o PinA,
     "max-age=5184000; " \o PinA \o "; " \o PinC,
     PinA \o "; " \o PinB \o "; includeSubDomains",
     PinA \o "; " \o PinB \o "; max-age=soon",
     "Max-Age=5184000; Pin-SHA256=\"a\"; pin-sha256=\"b\"; report-uri=\"/r\""}

\* the records of the preload list
PreloadRecords == [includeSubDomains : BOOLEAN, includeSubDomainsForPinning : BOOLEAN]

HttpsResponses ==
    {None} \cup
    {[url |-> "https://example.com/", verified |-> v, headers |-> EmptyDict] : v \in BOOLEAN}
    \cup
    {[url |-> "https://example.com/", verified |-> v, headers |-> h] :
        v \in BOOLEAN,
        h \in {[n \in {"Strict-Transport-Security"} |-> t] : t \in HSTSHeaderTexts}
              \cup {[n \in {"Public-Key-Pins"} |-> t] : t \in HPKPHeaderTexts}}

InitTLS ==
    /\ auto = [url |-> "https://example.com/", headers |-> EmptyDict,
               http_equiv |-> EmptyDict, csp_padding |-> 0]
    /\ https \in HttpsResponses
    /\ \E listed \in {None} \cup PreloadRecords : \E pinned \in BOOLEAN :
          /\ hsts_preloaded = listed
          /\ hpkp_preloaded = IF pinned THEN listed ELSE None
    /\ session_cookies = <<>>
    /\ ret = None

\* one evaluation of each scan
NextTLS ==
    \/ ret = None /\ CallStrictTransportSecurity
    \/ ret = None /\ CallPublicKeyPinning

SpecTLS == InitTLS /\ [][NextTLS]_vars

(***************************************************************************)
(* Transport checks: what a header states, read off the header text.       *)
(***************************************************************************)
\* the parts of a header between semicolons, outer whitespace removed
HeaderParts(header) ==
    LET parts == SplitOn(header, ";")
    IN  [i \in 1..Len(parts) |-> Strip(parts[i])]

IsNumber(s) == s # "" /\ \A i \in 1..Len(s) : Char(s, i) \in DigitChars

\* the parts that give a numeric max-age
NumericMaxAges(header) ==
    {i \in 1..Len(HeaderParts(header)) :
        /\ StartsWith(Lower(HeaderParts(header)[i]), "max-age=")
        /\ IsNumber(From(HeaderParts(header)[i], Len("max-age=") + 1))}

HasNumericMaxAge(header) == NumericMaxAges(header) # {}

\* the max-age N of a header that has a numeric max-age
MaxAgeOf(header) ==
    LET i == CHOOSE n \in NumericMaxAges(header) : \A m \in NumericMaxAges(header) : m <= n
    IN  DigitsValue(From(HeaderParts(header)[i], Len("max-age=") + 1))

\* the distinct pins of a header: the values of its pin-sha256= parts
DistinctPins(header) ==
    {From(HeaderParts(header)[i], Len("pin-sha256=") + 1) :
        i \in {n \in 1..Len(HeaderParts(header)) :
                  StartsWith(Lower(HeaderParts(header)[n]), "pin-sha256=")}}

HasHeader(response, name) == response # None /\ name \in DOMAIN response.headers

\* C3: whenever an https response exists and the preload lookup for its
\* host succeeds, strict_transport_security returns hsts-preloaded and
\* public_key_pinning returns hpkp-preloaded, with preloaded = true and
\* includeSubDomains as the preload record has it, whatever the header is
\* and whether or not the certificate chain is verified.
C3_PreloadOverrides ==
    /\ (Called("strict_transport_security") /\ https # None /\ hsts_preloaded # None)
          => /\ ret.output.result = "hsts-preloaded"
             /\ ret.output.preloaded = TRUE
             /\ ret.output.includeSubDomains = hsts_preloaded.includeSubDomains
    /\ (Called("public_key_pinning") /\ https # None /\ hpkp_preloaded # None)
          => /\ ret.output.result = "hpkp-preloaded"
             /\ ret.output.preloaded = TRUE
             /\ ret.output.includeSubDomains = hpkp_preloaded.includeSubDomainsForPinning

\* C3's case: a preloaded host whose certificate chain is unverified, or
\* whose header is invalid and asks for includeSubDomains while the preload
\* record does not have it
C3_Witness ==
    /\ Called("strict_transport_security")
    /\ https # None /\ hsts_preloaded # None
    /\ ret.output.result = "hsts-preloaded"
    /\ \/ ~https.verified
       \/ /\ HasHeader(https, "Strict-Transport-Security")
          /\ Contains(https.headers["Strict-Transport-Security"], ",")
          /\ ~hsts_preloaded.includeSubDomains

\* C4: on a verified https response with no preload hit, a
\* Strict-Transport-Security header with no comma and a numeric max-age N
\* gives hsts-implemented-max-age-at-least-six-months when N >= 15552000
\* and hsts-implemented-max-age-less-than-six-months for every other N,
\* 0 included; hsts-header-invalid is returned only for a header with a
\* comma, or without a numeric max-age.
C4_MaxAgeDecidesResult ==
    (/\ Called("strict_transport_security")
     /\ HasHeader(https, "Strict-Transport-Security")
     /\ https.verified
     /\ hsts_preloaded = None)
        => LET header == https.headers["Strict-Transport-Security"]
           IN  /\ (~Contains(header, ",") /\ HasNumericMaxAge(header))
                     => ret.output.result =
                           IF MaxAgeOf(header) >= SIX_MONTHS
                           THEN "hsts-implemented-max-age-at-least-six-months"
                           ELSE "hsts-implemented-max-age-less-than-six-months"
               /\ ret.output.result = "hsts-header-invalid"
                     => (Contains(header, ",") \/ ~HasNumericMaxAge(header))

\* C9: on a verified https response with no preload hit, public_key_pinning
\* returns hpkp-header-invalid, with pass = false, exactly when the
\* Public-Key-Pins header is present and has fewer than two distinct pins
\* or no max-age; with two distinct pins and a max-age N it returns
\* hpkp-implemented-max-age-less-than-fifteen-days when N < 1296000 and
\* hpkp-implemented-max-age-at-least-fifteen-days otherwise.
C9_PinsAndMaxAgeDecideResult ==
    (/\ Called("public_key_pinning")
     /\ https # None
     /\ https.verified
     /\ hpkp_preloaded = None)
        => LET present == HasHeader(https, "Public-Key-Pins")
               header == https.headers["Public-Key-Pins"]
           IN  /\ ret.output.result = "hpkp-header-invalid"
                     <=> (present /\ (Cardinality(DistinctPins(header)) < 2
                                      \/ ~HasNumericMaxAge(header)))
               /\ ret.output.result = "hpkp-header-invalid" => ret.output.pass = FALSE
               /\ (present /\ Cardinality(DistinctPins(header)) >= 2
                           /\ HasNumericMaxAge(header))
                     => ret.output.result =
                           IF MaxAgeOf(header) < FIFTEEN_DAYS
                           THEN "hpkp-implemented-max-age-less-than-fifteen-days"
                           ELSE "hpkp-implemented-max-age-at-least-fifteen-days"

(***************************************************************************)
(* cookies.  A cookie of the jar is a record: its name (name followed by   *)
(* name_padding characters "a"), domain, path, the secure flag, the        *)
(* httponly attribute (None while the object has no such attribute) and    *)
(* rest, the names of its non-standard attributes.  The cookies of the     *)
(* scans are session cookies of one host: expires and port are None.       *)
(***************************************************************************)
\* cookie.name
CookieName(cookie) == cookie.name \o Repeat("a", cookie.name_padding)

\* The order of how bad the various results are
goodness ==
    <<"cookies-without-secure-flag-but-protected-by-hsts",
      "cookies-without-secure-flag",
      "cookies-session-without-secure-flag-but-protected-by-hsts",
      "cookies-session-without-httponly-flag",
      "cookies-session-without-secure-flag">>

\* order.index(result)
IndexOf(order, result) == CHOOSE i \in 1..Len(order) : order[i] = result

\* The ranker: keeps the worse of two results in the order; a result "None"
\* is no result yet.
only_if_worse(new_result, old_result, order) ==
    IF old_result = "None" THEN new_result
    ELSE IF IndexOf(order, new_result) > IndexOf(order, old_result) THEN new_result
    ELSE old_result

\* del(session.cookies[name]): every cookie of that name leaves the jar
remove_cookie_by_name(jar, name) ==
    SelectSeq(jar, LAMBDA cookie : CookieName(cookie) # name)

\* the cookie after "if not hasattr(cookie, 'httponly')"
cookie_httponly(cookie) ==
    IF cookie.httponly # None THEN cookie
    ELSE [cookie EXCEPT !.httponly = Some(\E key \in cookie.rest : Lower(key) = "httponly")]

\* any(i in cookie.name.lower() for i in ('login', 'sess'))
sessionid(cookie) ==
    LET name == Lower(CookieName(cookie))
    IN  Contains(name, "login") \/ Contains(name, "sess")

\* cookie_result without the test of the HttpOnly flag of session cookies
cookie_result_without_httponly_test(cookie, hsts, result) ==
    LET secure == cookie.secure
        first  == IF ~secure /\ hsts
                  THEN only_if_worse("cookies-without-secure-flag-but-protected-by-hsts",
                                     result, goodness)
                  ELSE IF ~secure
                  THEN only_if_worse("cookies-without-secure-flag", result, goodness)
                  ELSE result
    IN  IF sessionid(cookie) /\ ~secure /\ hsts
        THEN only_if_worse("cookies-session-without-secure-flag-but-protected-by-hsts",
                           first, goodness)
        ELSE IF sessionid(cookie) /\ ~secure
        THEN only_if_worse("cookies-session-without-secure-flag", first, goodness)
        ELSE first

\* output['result'] after the three tests on one cookie
cookie_result(cookie, hsts, result) ==
    LET secure   == cookie.secure
        httponly == cookie.httponly.some
        first    == IF ~secure /\ hsts
                    THEN only_if_worse("cookies-without-secure-flag-but-protected-by-hsts",
                                       result, goodness)
                    ELSE IF ~secure
                    THEN only_if_worse("cookies-without-secure-flag", result, goodness)
                    ELSE result
        second   == IF sessionid(cookie) /\ ~secure /\ hsts
                    THEN only_if_worse("cookies-session-without-secure-flag-but-protected-by-hsts",
                                       first, goodness)
                    ELSE IF sessionid(cookie) /\ ~secure
                    THEN only_if_worse("cookies-session-without-secure-flag", first, goodness)
                    ELSE first
    IN  IF sessionid(cookie) /\ ~httponly
        THEN only_if_worse("cookies-session-without-httponly-flag", second, goodness)
        ELSE second

RECURSIVE cookies_loop(_, _, _)
\* the loop over session.cookies, whose cookies have their httponly
cookies_loop(jar, hsts, result) ==
    IF jar = <<>> THEN result
    ELSE cookies_loop(Tail(jar), hsts, cookie_result(Head(jar), hsts, result))

\* jar[cookie.name] = {...}: a later cookie of the same name replaces the entry
cookies_jar(jar) ==
    LET names == {CookieName(jar[i]) : i \in 1..Len(jar)}
        last(name) == jar[CHOOSE i \in 1..Len(jar) :
                            /\ CookieName(jar[i]) = name
                            /\ \A j \in (i + 1)..Len(jar) : CookieName(jar[j]) # name]
    IN  [name \in names |->
            [domain |-> last(name).domain, expires |-> None,
             httponly |-> last(name).httponly.some, max_age |-> None,
             path |-> last(name).path, port |-> None, secure |-> last(name).secure]]

\* len(str(b)) of a bool
ReprLenBool(b) == IF b THEN 4 ELSE 5

\* len(str(jar)): each entry is its name, ": " and the dict of the seven
\* attributes, of which expires, max-age and port are None
ReprLenJar(jar) ==
    2 + SumOver(DOMAIN jar,
                [name \in DOMAIN jar |->
                    ReprLenStr(name) + 2 + 96 + ReprLenStr(jar[name].domain)
                    + ReprLenBool(jar[name].httponly) + ReprLenStr(jar[name].path)
                    + ReprLenBool(jar[name].secure)])
    + (IF DOMAIN jar = {} THEN 0 ELSE 2 * (Cardinality(DOMAIN jar) - 1))

\* the longest str(jar) that is kept as data, plus one
MAX_JAR_LENGTH == 32768

\* session.cookies after the call: the tracking cookie has left the jar and
\* every cookie has its httponly attribute
cookies_session(jar) ==
    IF Len(jar) = 0 THEN jar
    ELSE LET kept == remove_cookie_by_name(jar, "__cfduid")
         IN  [i \in 1..Len(kept) |-> cookie_httponly(kept[i])]

\* the output of a jar, its data and the result its loop has found
cookies_output(output, jar, data, found) ==
    LET result == IF Len(jar) = 0 THEN "cookies-not-found"
                  ELSE IF found = "None" THEN "cookies-secure-with-httponly-sessions"
                  ELSE found
    IN  [output EXCEPT
            !.data   = IF Len(jar) = 0 THEN None
                       ELSE IF ReprLenJar(data) < MAX_JAR_LENGTH THEN Some(data)
                       ELSE Some(EmptyDict),
            !.result = result,
            !.pass   = result \in {"cookies-not-found", output.expectation}]

cookies(jar, response, preloaded, expectation) ==
    LET output == [data |-> None, expectation |-> expectation, pass |-> FALSE, result |-> "None"]
        hsts   == strict_transport_security(response, preloaded,
                      "hsts-implemented-max-age-at-least-six-months").pass
        seen   == cookies_session(jar)
    IN  cookies_output(output, jar, cookies_jar(seen), cookies_loop(seen, hsts, output.result))

CookiesExpectations ==
    {"cookies-secure-with-httponly-sessions", "cookies-without-secure-flag",
     "cookies-not-found"}

CallCookies ==
    \E expectation \in CookiesExpectations :
        /\ ret' = Call("cookies", cookies(session_cookies, https, hsts_preloaded, expectation))
        /\ session_cookies' = cookies_session(session_cookies)
        /\ UNCHANGED <<auto, https, hsts_preloaded, hpkp_preloaded>>

(***************************************************************************)
(* The scans of the cookie check: a jar of at most MaxCookies cookies of   *)
(* different names, in every order, or one cookie of a very long name,     *)
(* over a host with or without a passing Strict-Transport-Security.        *)
(***************************************************************************)
MaxCookies == 2

CookieNames == {"sessionid", "theme", "__cfduid", "UserLogin"}

\* the httponly attribute and the non-standard attributes of a cookie
HttpOnlyForms ==
    {[httponly |-> None, rest |-> {}],
     [httponly |-> None, rest |-> {"HttpOnly", "SameSite"}],
     [httponly |-> Some(FALSE), rest |-> {"httponly"}]}

Cookie(name, padding, secure, form) ==
    [name |-> name, name_padding |-> padding, domain |-> "example.com", path |-> "/",
     secure |-> secure, httponly |-> form.httponly, rest |-> form.rest]

Cookies ==
    {Cookie(name, 0, secure, form) :
        name \in CookieNames, secure \in BOOLEAN, form \in HttpOnlyForms}

Jars ==
    {jar \in UNION {[1..n -> Cookies] : n \in 0..MaxCookies} :
        \A i, j \in 1..Len(jar) : i # j => jar[i].name # jar[j].name}
    \cup {<<Cookie("theme", MAX_JAR_LENGTH, TRUE, [httponly |-> None, rest |-> {}])>>}

\* the https response and what the preload list says of its host
CookieHosts ==
    {[https |-> None, listed |-> None],
     [https |-> [url |-> "https://example.com/", verified |-> TRUE,
                 headers |-> [h \in {"Strict-Transport-Security"} |-> "max-age=31536000"]],
      listed |-> None],
     [https |-> [url |-> "https://example.com/", verified |-> TRUE,
                 headers |-> [h \in {"Strict-Transport-Security"} |-> "max-age=100"]],
      listed |-> [includeSubDomains |-> TRUE, includeSubDomainsForPinning |-> FALSE]]}

InitCookies ==
    /\ auto = [url |-> "https://example.com/", headers |-> EmptyDict,
               http_equiv |-> EmptyDict, csp_padding |-> 0]
    /\ \E host \in CookieHosts :
          /\ https = host.https
          /\ hsts_preloaded = host.listed
    /\ hpkp_preloaded = None
    /\ session_cookies \in Jars
    /\ ret = None

\* one evaluation of each scan
NextCookies == ret = None /\ CallCookies

SpecCookies == InitCookies /\ [][NextCookies]_vars

(***************************************************************************)
(* Cookie check: what the claims say of a jar, read off the cookies.       *)
(***************************************************************************)
\* the third-party tracking cookie a site cannot control
TRACKING_COOKIE == "__cfduid"

\* the cookies of the jar other than the tracking cookie
SiteCookies(jar) ==
    {jar[i] : i \in {j \in 1..Len(jar) : CookieName(jar[j]) # TRACKING_COOKIE}}

\* the HttpOnly flag of a cookie
IsHttpOnly(cookie) ==
    IF cookie.httponly # None THEN cookie.httponly.some
    ELSE \E key \in cookie.rest : Lower(key) = "httponly"

\* a session identifier: the lowercase name contains login or sess
IsSessionCookie(cookie) ==
    \E word \in {"login", "sess"} : Contains(Lower(CookieName(cookie)), word)

\* the fixed order of the downgrades, from the least to the most severe
Severity ==
    "cookies-without-secure-flag-but-protected-by-hsts" :> 1
    @@ "cookies-without-secure-flag" :> 2
    @@ "cookies-session-without-secure-flag-but-protected-by-hsts" :> 3
    @@ "cookies-session-without-httponly-flag" :> 4
    @@ "cookies-session-without-secure-flag" :> 5

\* whether a cookie triggers a downgrade
Triggers(cookie, hsts, downgrade) ==
    CASE downgrade = "cookies-without-secure-flag-but-protected-by-hsts" ->
            ~cookie.secure /\ hsts
      [] downgrade = "cookies-without-secure-flag" ->
            ~cookie.secure /\ ~hsts
      [] downgrade = "cookies-session-without-secure-flag-but-protected-by-hsts" ->
            IsSessionCookie(cookie) /\ ~cookie.secure /\ hsts
      [] downgrade = "cookies-session-without-httponly-flag" ->
            IsSessionCookie(cookie) /\ ~IsHttpOnly(cookie)
      [] downgrade = "cookies-session-without-secure-flag" ->
            IsSessionCookie(cookie) /\ ~cookie.secure /\ ~hsts

\* the downgrades triggered by any cookie of a set
Triggered(site_cookies, hsts) ==
    {downgrade \in DOMAIN Severity :
        \E cookie \in site_cookies : Triggers(cookie, hsts, downgrade)}

\* the most severe of the triggered downgrades
WorstDowngrade(site_cookies, hsts) ==
    LET triggered == Triggered(site_cookies, hsts)
    IN  IF triggered = {} THEN "cookies-secure-with-httponly-sessions"
        ELSE CHOOSE worst \in triggered :
                \A other \in triggered : Severity[other] <= Severity[worst]

\* whether the Strict-Transport-Security check of the scan passes
HstsPasses ==
    strict_transport_security(https, hsts_preloaded,
        "hsts-implemented-max-age-at-least-six-months").pass

\* a step that is a call of cookies
CookiesStep == ret = None /\ ret' # None /\ ret'.fn = "cookies"

\* C5: when the jar is empty once the tracking cookie is removed from it
\* (a jar of the tracking cookie alone included), cookies returns
\* cookies-not-found and passes, whatever the expectation.
C5_NoSiteCookiesIsNotFound ==
    [][CookiesStep /\ SiteCookies(session_cookies) = {}
       => ret'.output.result = "cookies-not-found" /\ ret'.output.pass]_vars

\* C6: for a jar that has cookies other than the tracking cookie, the result
\* of cookies is the most severe of the downgrades its cookies trigger, or
\* cookies-secure-with-httponly-sessions when none triggers, whatever the
\* order of the cookies; a session cookie without the secure flag under a
\* passing HSTS gives a result at least as severe as
\* cookies-session-without-secure-flag-but-protected-by-hsts.
C6_WorstDowngradeIsResult ==
    [][CookiesStep /\ SiteCookies(session_cookies) # {}
       => /\ ret'.output.result = WorstDowngrade(SiteCookies(session_cookies), HstsPasses)
          /\ (HstsPasses /\ \E cookie \in SiteCookies(session_cookies) :
                                CookieName(cookie) = "sessionid" /\ ~cookie.secure)
             => /\ ret'.output.result \in DOMAIN Severity
                /\ Severity[ret'.output.result]
                      >= Severity["cookies-session-without-secure-flag-but-protected-by-hsts"]]_vars

\* cookies has folded the downgrades of two cookies, the more severe one
\* triggered by the first cookie of the jar
C6_Witness ==
    /\ Called("cookies")
    /\ Len(session_cookies) = 2
    /\ IsSessionCookie(session_cookies[1]) /\ ~IsHttpOnly(session_cookies[1])
    /\ ~IsSessionCookie(session_cookies[2]) /\ ~session_cookies[2].secure
    /\ ret.output.result = "cookies-session-without-httponly-flag"

(***************************************************************************)
(* x_frame_options                                                         *)
(***************************************************************************)
\* the length the X-Frame-Options header is cut to
MAX_XFO_LENGTH == 1024

\* the result for the header alone
xfo_header(output, header) ==
    LET data == Take(header, MAX_XFO_LENGTH)
        xfo  == Lower(Strip(data))
    IN  [output EXCEPT
            !.data   = Some(data),
            !.result = IF xfo \in {"deny", "sameorigin"}
                       THEN "x-frame-options-sameorigin-or-deny"
                       ELSE IF StartsWith(xfo, "allow-from ")
                       THEN "x-frame-options-allow-from-origin"
                       ELSE "x-frame-options-header-invalid"]

\* if csp['data']: if 'frame-ancestors' in csp['data']
xfo_via_csp(output, csp) ==
    IF csp.data # None /\ DOMAIN csp.data.some # {} /\ "frame-ancestors" \in DOMAIN csp.data.some
    THEN [output EXCEPT !.result = "x-frame-options-implemented-via-csp"]
    ELSE output

xfo_pass(result, expectation) ==
    result \in {"x-frame-options-allow-from-origin", "x-frame-options-sameorigin-or-deny",
                "x-frame-options-implemented-via-csp", expectation}

\* output['pass'] of the output that carries its result
xfo_output(output, expectation) ==
    [output EXCEPT !.pass = xfo_pass(output.result, expectation)]

x_frame_options(response, expectation) ==
    LET output == [data |-> None, expectation |-> expectation, pass |-> FALSE, result |-> "None"]
        header == IF "X-Frame-Options" \in DOMAIN response.headers
                  THEN xfo_header(output, response.headers["X-Frame-Options"])
                  ELSE [output EXCEPT !.result = "x-frame-options-not-implemented"]
        csp    == content_security_policy(response, "csp-implemented-with-no-unsafe")
    IN  xfo_output(xfo_via_csp(header, csp), expectation)

(***************************************************************************)
(* x_xss_protection                                                        *)
(***************************************************************************)
\* the length the X-XSS-Protection header is cut to
MAX_XXSSP_LENGTH == 256

\* xxssp.get('mode') of the dict built from the header: the key of a part
\* is what precedes its first "=", its value what lies between the first
\* and the second "=", or None without "="; a later part of the same key
\* replaces the earlier one
xxssp_mode(xxssp) ==
    LET parts  == SplitOn(xxssp, ";")
        key(d) == Strip(SplitOn(d, "=")[1])
        modes  == {i \in 1..Len(parts) : key(parts[i]) = "mode"}
    IN  IF modes = {} THEN None
        ELSE LET last == CHOOSE i \in modes : \A j \in modes : j <= i
                 d    == SplitOn(parts[last], "=")
             IN  IF Len(d) > 1 THEN Some(Strip(d[2])) ELSE None

\* the result for a header that is not empty; the header that starts with
\* neither 0 nor 1 raises ValueError
xxssp_header(xxssp) ==
    LET enabled == Char(xxssp, 1) = "1"
    IN  IF Char(xxssp, 1) \notin {"0", "1"} THEN Raised("ValueError")
        ELSE IF enabled /\ xxssp_mode(xxssp) = Some("block")
        THEN Returned("x-xss-protection-enabled-mode-block")
        ELSE IF enabled THEN Returned("x-xss-protection-enabled")
        ELSE Returned("x-xss-protection-disabled")

\* the last two tests: enabled in any capacity, or a passing policy
xxssp_pass(output, response) ==
    IF Contains(output.result, "enabled") THEN [output EXCEPT !.pass = TRUE]
    ELSE IF content_security_policy(response, "csp-implemented-with-no-unsafe").pass
    THEN [output EXCEPT !.pass = TRUE, !.result = "x-xss-protection-not-needed-due-to-csp"]
    ELSE output

x_xss_protection(response, expectation) ==
    LET output == [data |-> None, expectation |-> expectation, pass |-> FALSE, result |-> "None"]
        xxssp  == IF "X-XSS-Protection" \in DOMAIN response.headers
                  THEN response.headers["X-XSS-Protection"] ELSE ""
        cut    == [output EXCEPT !.data = Some(Take(xxssp, MAX_XXSSP_LENGTH))]
    IN  IF xxssp # "" /\ HasRaised(xxssp_header(xxssp))
        THEN [cut EXCEPT !.result = "x-xss-protection-header-invalid"]
        ELSE xxssp_pass(IF xxssp = ""
                        THEN [output EXCEPT !.result = "x-xss-protection-not-implemented"]
                        ELSE [cut EXCEPT !.result = xxssp_header(xxssp).returned],
                        response)

XFOExpectations ==
    {"x-frame-options-sameorigin-or-deny", "x-frame-options-not-implemented",
     "x-frame-options-header-invalid"}

CallXFrameOptions ==
    \E expectation \in XFOExpectations :
        /\ ret' = Call("x_frame_options", x_frame_options(auto, expectation))
        /\ UNCHANGED <<auto, https, hsts_preloaded, hpkp_preloaded, session_cookies>>

XXSSPExpectations ==
    {"x-xss-protection-1-mode-block", "x-xss-protection-disabled",
     "x-xss-protection-header-invalid"}

CallXXSSProtection ==
    \E expectation \in XXSSPExpectations :
        /\ ret' = Call("x_xss_protection", x_xss_protection(auto, expectation))
        /\ UNCHANGED <<auto, https, hsts_preloaded, hpkp_preloaded, session_cookies>>

(***************************************************************************)
(* The scans of the X-Frame-Options check: the header, with a policy in    *)
(* the Content-Security-Policy header and in the meta tag that has or has  *)
(* not a frame-ancestors directive; among them a policy whose source list  *)
(* is MAX_DATA_LENGTH characters long.                                     *)
(***************************************************************************)
XFOHeaderTexts ==
    {"DENY", " SameOrigin ", "ALLOW-FROM https://a.example/", "allowall",
     "sameorigin, sameorigin", "", "deny" \o Repeat(" ", MAX_XFO_LENGTH - 4) \o "x"}

FramePolicyTexts ==
    {"default-src 'none'", "default-src 'none'; frame-ancestors 'none'",
     "frame-ancestors *", "frame-ancestors", "Frame-Ancestors 'none'",
     "frame-ancestors 'self'; frame-ancestors 'none'"}

FrameEquivTexts == {"frame-ancestors 'none'; default-src 'self'", "x-src"}

LongFramePolicy == "frame-ancestors 'none'; img-src "

InitFrame ==
    /\ \/ \E xfo \in Header("X-Frame-Options", XFOHeaderTexts) :
          \E csp \in Header("Content-Security-Policy", FramePolicyTexts) :
          \E http_equiv \in Header("Content-Security-Policy", FrameEquivTexts) :
              auto = [url |-> "https://example.com/", headers |-> xfo @@ csp,
                      http_equiv |-> http_equiv, csp_padding |-> 0]
       \/ \E xfo \in Header("X-Frame-Options", {"DENY"}) :
              auto = [url |-> "https://example.com/",
                      headers |-> xfo @@ [h \in {"Content-Security-Policy"} |-> LongFramePolicy],
                      http_equiv |-> EmptyDict, csp_padding |-> MAX_DATA_LENGTH]
    /\ https = None
    /\ hsts_preloaded = None
    /\ hpkp_preloaded = None
    /\ session_cookies = <<>>
    /\ ret = None

\* one evaluation of each scan
NextFrame == ret = None /\ CallXFrameOptions

SpecFrame == InitFrame /\ [][NextFrame]_vars

(***************************************************************************)
(* Frame check: the claim, read off the merged policy of the scan.         *)
(***************************************************************************)
\* C7: whenever the merged policy of the response has a frame-ancestors
\* directive, x_frame_options returns x-frame-options-implemented-via-csp
\* and passes, whatever the X-Frame-Options header, the sources of the
\* directive and the expectation.
C7_FrameAncestorsImplementsXFO ==
    Called("x_frame_options") /\ PolicyParsed /\ "frame-ancestors" \in DOMAIN MergedPolicy
    => ret.output.result = "x-frame-options-implemented-via-csp" /\ ret.output.pass

(***************************************************************************)
(* The scans of the X-XSS-Protection check: the header, with a policy      *)
(* that passes the Content-Security-Policy check or does not.              *)
(***************************************************************************)
XXSSPHeaderTexts ==
    {"", "0", "1", "1; mode=block", "1;mode=Block", "0; mode=block", "mode=block",
     "1; mode=block; report=https://a.example/r?x=1", "1; mode=block; mode", "2",
     "1" \o Repeat(" ", MAX_XXSSP_LENGTH) \o "; mode = block=1"}

XSSPolicyTexts ==
    {"default-src 'none'", "default-src 'self'", "script-src 'unsafe-inline'",
     "default-src 'self'; style-src 'unsafe-inline'", "default-src http:",
     "default-src 'self'; default-src 'none'"}

XSSEquivTexts == {"script-src data:", "object-src 'none'"}

InitXSS ==
    /\ \E url \in Urls :
       \E xxssp \in Header("X-XSS-Protection", XXSSPHeaderTexts) :
       \E csp \in Header("Content-Security-Policy", XSSPolicyTexts) :
       \E http_equiv \in Header("Content-Security-Policy", XSSEquivTexts) :
           auto = [url |-> url, headers |-> xxssp @@ csp,
                   http_equiv |-> http_equiv, csp_padding |-> 0]
    /\ https = None
    /\ hsts_preloaded = None
    /\ hpkp_preloaded = None
    /\ session_cookies = <<>>
    /\ ret = None

\* one evaluation of each scan
NextXSS == ret = None /\ CallXXSSProtection

SpecXSS == InitXSS /\ [][NextXSS]_vars

(***************************************************************************)
(* XSS check: the claim, read off the header and the policy check.         *)
(***************************************************************************)
XXSSP_NAME == "X-XSS-Protection"

\* the header's own classification: absent (or empty), invalid when it
\* starts with neither 0 nor 1, disabled for 0, enabled for 1
OwnClassification ==
    IF XXSSP_NAME \notin DOMAIN auto.headers THEN "absent"
    ELSE IF auto.headers[XXSSP_NAME] = "" THEN "absent"
    ELSE IF Take(auto.headers[XXSSP_NAME], 1) = "0" THEN "disabled"
    ELSE IF Take(auto.headers[XXSSP_NAME], 1) = "1" THEN "enabled"
    ELSE "invalid"

\* the Content-Security-Policy check of the scan passes
CSPPasses == content_security_policy(auto, "csp-implemented-with-no-unsafe").pass

\* C8: when the header's own classification does not pass (absent, disabled
\* or invalid), x_xss_protection returns
\* x-xss-protection-not-needed-due-to-csp and passes if the policy check
\* passes, and does not pass if it does not, whatever the expectation.
C8_PolicyCompensates ==
    Called("x_xss_protection") /\ OwnClassification # "enabled"
    => IF CSPPasses
       THEN ret.output.result = "x-xss-protection-not-needed-due-to-csp" /\ ret.output.pass
       ELSE ~ret.output.pass

(***************************************************************************)
(* referrer_policy                                                         *)
(***************************************************************************)
\* the length the Referrer-Policy value is cut to
MAX_REFERRER_LENGTH == 256

referrer_goodness ==
    {"no-referrer", "same-origin", "strict-origin", "strict-origin-when-cross-origin"}

referrer_badness == {"origin", "origin-when-cross-origin", "unsafe-url"}

referrer_valid == referrer_goodness \cup referrer_badness \cup {"no-referrer-when-downgrade"}

\* output['data'].  With a single source it is
\* (http_equiv.get(name) or headers.get(name))[0:256]: an empty tag value
\* gives way to the header's, which is None when there is no header, and
\* None[0:256] raises TypeError
referrer_data(headers, http_equiv) ==
    IF "Referrer-Policy" \in DOMAIN headers /\ "Referrer-Policy" \in DOMAIN http_equiv
    THEN Returned(Take(headers["Referrer-Policy"] \o ", " \o http_equiv["Referrer-Policy"],
                       MAX_REFERRER_LENGTH))
    ELSE IF "Referrer-Policy" \in DOMAIN http_equiv /\ http_equiv["Referrer-Policy"] # ""
    THEN Returned(Take(http_equiv["Referrer-Policy"], MAX_REFERRER_LENGTH))
    ELSE IF "Referrer-Policy" \in DOMAIN headers
    THEN Returned(Take(headers["Referrer-Policy"], MAX_REFERRER_LENGTH))
    ELSE Raised("TypeError")

\* the last known valid policy value of the data, or None
referrer_last_policy(data) ==
    LET tokens == SplitOn(Lower(data), ",")
        policy == SelectSeq([i \in 1..Len(tokens) |-> Strip(tokens[i])],
                            LAMBDA token : token \in referrer_valid)
    IN  IF policy = <<>> THEN None ELSE Some(policy[Len(policy)])

referrer_result(policy) ==
    IF policy = None THEN "referrer-policy-header-invalid"
    ELSE IF policy.some \in referrer_goodness THEN "referrer-policy-private"
    ELSE IF policy.some = "no-referrer-when-downgrade"
    THEN "referrer-policy-no-referrer-when-downgrade"
    ELSE IF policy.some \in referrer_badness THEN "referrer-policy-unsafe"
    ELSE "referrer-policy-header-invalid"

referrer_pass(result, expectation) ==
    result \in {"referrer-policy-private", "referrer-policy-not-implemented",
                "referrer-policy-no-referrer-when-downgrade", expectation}

\* the output, or the exception the call ends with
referrer_policy(response, expectation) ==
    LET output == [data |-> None, expectation |-> expectation, pass |-> FALSE, result |-> "None"]
        data   == referrer_data(response.headers, response.http_equiv)
        result == referrer_result(referrer_last_policy(data.returned))
    IN  IF "Referrer-Policy" \notin DOMAIN response.headers
           /\ "Referrer-Policy" \notin DOMAIN response.http_equiv
        THEN [output EXCEPT !.result = "referrer-policy-not-implemented", !.pass = TRUE]
        ELSE IF HasRaised(data) THEN data
        ELSE [output EXCEPT !.data = Some(data.returned), !.result = result,
                            !.pass = referrer_pass(result, expectation)]

ReferrerExpectations ==
    {"referrer-policy-private", "referrer-policy-unsafe", "referrer-policy-origin",
     "referrer-policy-header-invalid"}

CallReferrerPolicy ==
    \E expectation \in ReferrerExpectations :
        /\ ret' = Call("referrer_policy", referrer_policy(auto, expectation))
        /\ UNCHANGED <<auto, https, hsts_preloaded, hpkp_preloaded, session_cookies>>

(***************************************************************************)
(* The scans of the Referrer-Policy check: a value in the header, in the   *)
(* meta tag, in both or in neither.                                        *)
(***************************************************************************)
ReferrerHeaderTexts ==
    {"no-referrer", "Same-Origin", "origin", "unsafe-url, strict-origin",
     "no-referrer, unsafe-url", "no-referrer-when-downgrade", "bogus", "",
     " origin-when-cross-origin , bogus", "strict-origin-when-cross-origin",
     "no-referrer;origin", "origin," \o Repeat(" ", MAX_REFERRER_LENGTH - 9) \o ","}

ReferrerEquivTexts == {"no-referrer", "unsafe-url", "never", "", "origin, SAME-ORIGIN "}

InitReferrer ==
    /\ \E headers \in Header("Referrer-Policy", ReferrerHeaderTexts) :
       \E http_equiv \in Header("Referrer-Policy", ReferrerEquivTexts) :
           auto = [url |-> "https://example.com/", headers |-> headers,
                   http_equiv |-> http_equiv, csp_padding |-> 0]
    /\ https = None
    /\ hsts_preloaded = None
    /\ hpkp_preloaded = None
    /\ session_cookies = <<>>
    /\ ret = None

\* one evaluation of each scan
NextReferrer == ret = None /\ CallReferrerPolicy

SpecReferrer == InitReferrer /\ [][NextReferrer]_vars

(***************************************************************************)
(* Referrer check: the claim, read off the two values.                     *)
(***************************************************************************)
REFERRER_NAME == "Referrer-Policy"

\* the value the tokens are read from: the header's, then the tag's, cut
\* to 256 characters
ReferrerValue ==
    Take(IF REFERRER_NAME \in DOMAIN auto.headers /\ REFERRER_NAME \in DOMAIN auto.http_equiv
         THEN auto.headers[REFERRER_NAME] \o ", " \o auto.http_equiv[REFERRER_NAME]
         ELSE IF REFERRER_NAME \in DOMAIN auto.headers THEN auto.headers[REFERRER_NAME]
         ELSE auto.http_equiv[REFERRER_NAME],
         MAX_REFERRER_LENGTH)

\* the comma-separated tokens, trimmed, in lower case
ReferrerTokens ==
    LET pieces == SplitOn(ReferrerValue, ",")
    IN  [i \in 1..Len(pieces) |-> Lower(Strip(pieces[i]))]

PrivatePolicies ==
    {"no-referrer", "same-origin", "strict-origin", "strict-origin-when-cross-origin"}

UnsafePolicies == {"origin", "origin-when-cross-origin", "unsafe-url"}

ValidPolicies == PrivatePolicies \cup UnsafePolicies \cup {"no-referrer-when-downgrade"}

\* the positions of the valid tokens
ValidTokens == {i \in 1..Len(ReferrerTokens) : ReferrerTokens[i] \in ValidPolicies}

\* the last valid token
LastValidToken == ReferrerTokens[CHOOSE i \in ValidTokens : \A j \in ValidTokens : j <= i]

\* C11: referrer_policy classifies by the last valid comma-separated token
\* of the header value followed by the tag value: a private policy gives
\* referrer-policy-private and passes, no-referrer-when-downgrade passes,
\* origin, origin-when-cross-origin and unsafe-url pass only when the
\* result is the expectation, no valid token gives
\* referrer-policy-header-invalid, which passes only as the expectation,
\* and neither source gives referrer-policy-not-implemented, which passes.
C11_LastValidTokenDecides ==
    Called("referrer_policy")
    => /\ ~HasRaised(ret.output)
       /\ IF REFERRER_NAME \notin DOMAIN auto.headers
             /\ REFERRER_NAME \notin DOMAIN auto.http_equiv
          THEN ret.output.result = "referrer-policy-not-implemented" /\ ret.output.pass
          ELSE IF ValidTokens = {}
          THEN /\ ret.output.result = "referrer-policy-header-invalid"
               /\ ret.output.pass <=> ret.output.expectation = "referrer-policy-header-invalid"
          ELSE IF LastValidToken \in PrivatePolicies
          THEN ret.output.result = "referrer-policy-private" /\ ret.output.pass
          ELSE IF LastValidToken = "no-referrer-when-downgrade"
          THEN /\ ret.output.result = "referrer-policy-no-referrer-when-downgrade"
               /\ ret.output.pass
          ELSE ret.output.pass <=> ret.output.result = ret.output.expectation

(***************************************************************************)
(* x_content_type_options                                                  *)
(***************************************************************************)
\* the length the X-Content-Type-Options header is cut to
MAX_XCTO_LENGTH == 256

x_content_type_options(response, expectation) ==
    LET output == [data |-> None, expectation |-> expectation, pass |-> FALSE, result |-> "None"]
        data   == Take(response.headers["X-Content-Type-Options"], MAX_XCTO_LENGTH)
        header == IF "X-Content-Type-Options" \in DOMAIN response.headers
                  THEN [output EXCEPT
                           !.data   = Some(data),
                           !.result = IF Lower(data) = "nosniff"
                                      THEN "x-content-type-options-nosniff"
                                      ELSE "x-content-type-options-header-invalid"]
                  ELSE [output EXCEPT !.result = "x-content-type-options-not-implemented"]
    IN  [header EXCEPT !.pass = (expectation = header.result)]

XCTOExpectations ==
    {"x-content-type-options-nosniff", "x-content-type-options-not-implemented"}

CallXContentTypeOptions ==
    \E expectation \in XCTOExpectations :
        /\ ret' = Call("x_content_type_options", x_content_type_options(auto, expectation))
        /\ UNCHANGED <<auto, https, hsts_preloaded, hpkp_preloaded, session_cookies>>

(***************************************************************************)
(* The scans on which the eight evaluators are called one after another,   *)
(* in any order and any number of times, on the same reqs.                 *)
(***************************************************************************)
ScanResponses ==
    {[url |-> "https://example.com/", headers |-> EmptyDict, http_equiv |-> EmptyDict,
      csp_padding |-> 0],
     [url |-> "https://example.com/",
      headers |-> ("Content-Security-Policy" :> "default-src 'none'; frame-ancestors 'none'")
                  @@ ("Referrer-Policy" :> "no-referrer, unsafe-url")
                  @@ ("X-Content-Type-Options" :> "NoSniff")
                  @@ ("X-Frame-Options" :> "allowall")
                  @@ ("X-XSS-Protection" :> "0"),
      http_equiv |-> ("Content-Security-Policy" :> "script-src 'nonce-abc' 'unsafe-inline'")
                     @@ ("Referrer-Policy" :> "same-origin"),
      csp_padding |-> 0]}

ScanHosts ==
    {None,
     [url |-> "https://example.com/", verified |-> TRUE,
      headers |-> ("Strict-Transport-Security" :> "max-age=31536000; includeSubDomains")
                  @@ ("Public-Key-Pins" :> "max-age=5184000; " \o PinA \o "; " \o PinB)]}

\* jars with cookies; no jar of the set is what cookies makes of another
ScanJars ==
    {<<Cookie("__cfduid", 0, FALSE, [httponly |-> None, rest |-> {"HttpOnly"}])>>,
     <<Cookie("__cfduid", 0, FALSE, [httponly |-> None, rest |-> {"HttpOnly"}]),
       Cookie("sessionid", 0, TRUE, [httponly |-> None, rest |-> {"HttpOnly"}])>>,
     <<Cookie("sessionid", 0, FALSE, [httponly |-> None, rest |-> {}]),
       Cookie("theme", 0, TRUE, [httponly |-> Some(FALSE), rest |-> {}])>>,
     <<Cookie("theme", 0, FALSE, [httponly |-> Some(FALSE), rest |-> {"httponly"}])>>}

InitScan ==
    /\ auto \in ScanResponses
    /\ https \in ScanHosts
    /\ hsts_preloaded = None
    /\ hpkp_preloaded = None
    /\ session_cookies \in ScanJars
    /\ ret = None

NextScan ==
    \/ CallContentSecurityPolicy
    \/ CallCookies
    \/ CallPublicKeyPinning
    \/ CallReferrerPolicy
    \/ CallStrictTransportSecurity
    \/ CallXContentTypeOptions
    \/ CallXFrameOptions
    \/ CallXXSSProtection

SpecScan == InitScan /\ [][NextScan]_vars

(***************************************************************************)
(* The scan as a whole: what the claims say of calls on the same reqs.     *)
(***************************************************************************)
Evaluators ==
    {"content_security_policy", "cookies", "public_key_pinning", "referrer_policy",
     "strict_transport_security", "x_content_type_options", "x_frame_options",
     "x_xss_protection"}

\* the expectations an evaluator is called with
ExpectationsOf(fn) ==
    CASE fn = "content_security_policy" -> CSPExpectations
      [] fn = "cookies" -> CookiesExpectations
      [] fn = "public_key_pinning" -> HPKPExpectations
      [] fn = "referrer_policy" -> ReferrerExpectations
      [] fn = "strict_transport_security" -> HSTSExpectations
      [] fn = "x_content_type_options" -> XCTOExpectations
      [] fn = "x_frame_options" -> XFOExpectations
      [] fn = "x_xss_protection" -> XXSSPExpectations

\* what an evaluator returns on the responses of the scan and a jar
Evaluate(fn, jar, expectation) ==
    CASE fn = "content_security_policy" -> content_security_policy(auto, expectation)
      [] fn = "cookies" -> cookies(jar, https, hsts_preloaded, expectation)
      [] fn = "public_key_pinning" -> public_key_pinning(https, hpkp_preloaded, expectation)
      [] fn = "referrer_policy" -> referrer_policy(auto, expectation)
      [] fn = "strict_transport_security" ->
            strict_transport_security(https, hsts_preloaded, expectation)
      [] fn = "x_content_type_options" -> x_content_type_options(auto, expectation)
      [] fn = "x_frame_options" -> x_frame_options(auto, expectation)
      [] fn = "x_xss_protection" -> x_xss_protection(auto, expectation)

\* the jars of the fresh scans from which the calls so far can have made
\* this state (the calls change nothing but the jar): the jar itself before
\* any call; after a call of cookies, the jars that cookies turns into this
\* one and on which, fresh or not, it returns what it has returned; after
\* another call, those jars and the jar itself
FreshJars ==
    IF ret = None THEN {session_cookies}
    ELSE {jar \in ScanJars :
            IF ret.fn = "cookies"
            THEN /\ cookies_session(jar) = session_cookies
                 /\ \E expectation \in CookiesExpectations :
                        ret.output \in {cookies(jar, https, hsts_preloaded, expectation),
                                        cookies(session_cookies, https, hsts_preloaded,
                                                expectation)}
            ELSE session_cookies \in {jar, cookies_session(jar)}}

\* C12: every call of an evaluator leaves the scan as it was: the same
\* cookies with the same attributes in the jar, the same responses.
C12_CallsLeaveScanUnchanged ==
    [][/\ session_cookies' = session_cookies
       /\ auto' = auto
       /\ https' = https]_vars

\* C13: whatever calls came before, a call returns what the same evaluator
\* returns, for the same expectation, as the first call on a fresh copy of
\* the scan.
C13_CallsReturnFreshResult ==
    [][\A expectation \in ExpectationsOf(ret'.fn) :
          ret' = Call(ret'.fn, Evaluate(ret'.fn, session_cookies, expectation))
          => \A jar \in FreshJars :
                ret' = Call(ret'.fn, Evaluate(ret'.fn, jar, expectation))]_vars

(***************************************************************************)
(* Content-Security-Policy check: the data returned and the sets the       *)
(* chain of tests works on.                                                *)
(***************************************************************************)
\* C14: whenever content_security_policy classifies a policy whose
\* serialized size is below 32768, the data returned is the merged policy:
\* the directives of the header policy and of the meta tag policy, each with
\* the union of the sources the two give it, 'unsafe-inline' included when a
\* hash or a nonce source stands beside it.
C14_DataIsMergedPolicy ==
    (Called("content_security_policy") /\ PolicyParsed
        /\ ReprLenDict(MergedPolicy) < MAX_DATA_LENGTH)
        => ret.output.data = Some(MergedPolicy)

\* the set the chain of tests uses for a directive
ChainSrc(name) ==
    csp_source_set(csp_remove_unsafe_inline(MergedPolicy),
                   csp_source_key(csp_remove_unsafe_inline(MergedPolicy), name))

\* a source that is a hash or a nonce
IsHashOrNonce(source) == \E p \in HashOrNonce : StartsWith(source, p)

\* the policy has default-src alone, made of hash or nonce sources and
\* 'unsafe-inline'
OnlyDefaultSrcWithNonce ==
    /\ DOMAIN MergedPolicy = {"default-src"}
    /\ "'unsafe-inline'" \in MergedPolicy["default-src"]
    /\ \E source \in MergedPolicy["default-src"] : IsHashOrNonce(source)
    /\ \A source \in MergedPolicy["default-src"] :
          IsHashOrNonce(source) \/ source = "'unsafe-inline'"

\* C15: the removal of 'unsafe-inline' beside a hash or a nonce touches the
\* working script-src alone: the chain of tests uses the effective style-src
\* and object-src as they are without it, also when they fall back to the
\* same default-src; a policy of default-src alone with a nonce and
\* 'unsafe-inline' is csp-implemented-with-unsafe-inline-in-style-src-only.
C15_RemovalTouchesScriptSrcOnly ==
    (Called("content_security_policy") /\ PolicyParsed)
        => /\ ChainSrc("style-src") = EffectiveSrc(MergedPolicy, "style-src")
           /\ ChainSrc("object-src") = EffectiveSrc(MergedPolicy, "object-src")
           /\ OnlyDefaultSrcWithNonce
              => ret.output.result = "csp-implemented-with-unsafe-inline-in-style-src-only"

(***************************************************************************)
(* Pinning check: the result code and pass.                                *)
(***************************************************************************)
\* C16: public_key_pinning returns pass = false if and only if its result
\* is hpkp-header-invalid; every other result comes with pass = true,
\* whatever the expectation.
C16_FailsIffHeaderInvalid ==
    Called("public_key_pinning")
        => (ret.output.pass = FALSE <=> ret.output.result = "hpkp-header-invalid")

=============================================================================
